---- MODULE Spec2Model ----
(***************************************************************************)
(* The offline-first synchronisation engine of the Dashboard component:    *)
(* the Entity Cache, the Outbox, the Identifier Mapping Table, the initial *)
(* load (loadTasks) and the reconciliation pass (syncNow), run against a   *)
(* task service that may fail any call.                                    *)
(*                                                                         *)
(* A step of the model is the code between two network awaits: the calls   *)
(* to the local store (offline/db) made there are part of the step.  The   *)
(* initial load is cut finer, at each of its awaits, because its abort     *)
(* signal may fire between them.                                           *)
(*                                                                         *)
(* A Task carries id (the source's _id), clienteId, title and status;      *)
(* description is carried exactly as title is, createdAt and deleted are   *)
(* never read by the engine, and the three are left out.                   *)
(*                                                                         *)
(* The local store is taken to answer every call, with one exception: the  *)
(* read in the fallback of loadTasks, whose failure the code handles by    *)
(* itself.                                                                 *)
(***************************************************************************)
EXTENDS Integers, Sequences, FiniteSets, TLC

\* A missing field (undefined).
None == "none"

\* Passes the connectivity effect may start in one run of the model.
MaxPasses == 2
\* Identifiers the task service may still assign in one run of the model.
MaxServerIds == 2

\* Client-generated correlation identifiers: the strings that start with 'cliente-'.
ClientIds == {"cliente-1"}

Statuses == {"Pendiente", "En Progreso", "Completada"}

\* The identifier of the task the server holds when the model starts.
S1 == "s1"

\* The n-th identifier the task service assigns after S1.
Sid(n) == "s" \o ToString(n + 1)

VARIABLES
  online,    \* navigator.onLine / useOnlineStatus()
  mounted,   \* "no", "yes" (the effects have run), "gone" (cleanup ran: controller.abort())
  loading,   \* useState loading
  tasks,     \* useState tasks (the in-memory task list)
  cache,     \* Entity Cache: the tasks store of offline/db
  outbox,    \* Outbox: the pending operations of offline/db
  mapping,   \* Identifier Mapping Table: pairs <<clientId, serverId>>
  server,    \* the task service's collection (raw records)
  nextId,    \* identifiers the task service has assigned so far
  load,      \* the initial loadTasks(signal) call: [pc, list, cancelledAt, read]
  pass,      \* the syncNow executions: p -> [pc, serverIds, localTasks, ops, i, todo, sent]
  started,   \* syncNow executions started so far
  applied,   \* history: the outbox entries the task service has applied
  lastRun    \* history: the pass that returned last,
             \* [run, cache, clean, alone, after, refetched, list, read, failed]

vars == <<online, mounted, loading, tasks, cache, outbox, mapping, server, nextId,
          load, pass, started, applied, lastRun>>

-----------------------------------------------------------------------------
(* normalizeTask *)

startsWithCliente(s) == s \in ClientIds

\* x.id stands for the raw record's _id ?? id.
normalizeTask(x) ==
  LET rawId == x.id
  IN  [ id        |-> IF rawId # None THEN rawId ELSE "undefined",
        clienteId |-> IF x.clienteId # None THEN x.clienteId
                      ELSE IF rawId # None THEN rawId ELSE "uuid",
        title     |-> IF x.title # None THEN x.title ELSE "(no title)",
        status    |-> IF x.status \in Statuses THEN x.status ELSE "Pendiente" ]

\* data?.items / data, each item normalised.
normalizeList(raw) == { normalizeTask(x) : x \in raw }

-----------------------------------------------------------------------------
(* offline/db: the local store *)

\* The key a Task is stored under: its id, or its clientId while it has none.
Key(t) == IF t.id # None THEN t.id ELSE t.clienteId

putTaskLocal(c, t) == { u \in c : Key(u) # Key(t) } \cup {t}

removeTaskLocal(c, id) == { u \in c : Key(u) # id }

cacheTasks(list) == list

getMapping(m, k) ==
  IF \E x \in m : x[1] = k THEN (CHOOSE x \in m : x[1] = k)[2] ELSE None

setMapping(m, k, v) == { x \in m : x[1] # k } \cup { <<k, v>> }

removeFromOutbox(o, id) == { e \in o : e.id # id }

\* The orders in which the store may hand out the entries.
getOutbox(o) ==
  { s \in [1..Cardinality(o) -> o] : \A e \in o : \E k \in 1..Cardinality(o) : s[k] = e }

-----------------------------------------------------------------------------
(* Array.prototype.sort((a, b) => a.ts - b.ts): stable, ascending *)

RECURSIVE insertByTs(_, _)
insertByTs(s, e) ==
  IF s = <<>> THEN <<e>>
  ELSE IF s[Len(s)].ts <= e.ts THEN Append(s, e)
       ELSE Append(insertByTs(SubSeq(s, 1, Len(s) - 1), e), s[Len(s)])

RECURSIVE sortByTs(_)
sortByTs(s) ==
  IF s = <<>> THEN <<>>
  ELSE insertByTs(sortByTs(SubSeq(s, 1, Len(s) - 1)), s[Len(s)])

-----------------------------------------------------------------------------
(* The task service *)

\* POST /api/tasks: the record the service stores and returns.
created(payload, n) ==
  [id |-> Sid(n + 1), clienteId |-> None, title |-> payload.title, status |-> payload.status]

\* PUT /api/tasks/:id
updated(srv, id, payload) ==
  { IF x.id = id THEN [x EXCEPT !.title = payload.title, !.status = payload.status] ELSE x
    : x \in srv }

\* DELETE /api/tasks/:id
deleted(srv, id) == { x \in srv : x.id # id }

holds(srv, id) == \E x \in srv : x.id = id

-----------------------------------------------------------------------------
(* The state after construction *)

IdlePass == [pc |-> "idle", serverIds |-> {}, localTasks |-> {}, ops |-> <<>>,
             i |-> 0, todo |-> {}, sent |-> {}]

\* A pass that returned: its locals are gone.
ended(pc) == [IdlePass EXCEPT !.pc = pc]

\* A pass whose snapshot request failed: the outer catch logged the error.
aborted == [ended("aborted") EXCEPT !.sent = {[kind |-> "list", entry |-> 0, key |-> None,
                                               sid |-> None, ok |-> FALSE]}]

\* read: how the fallback read of the cache ended, once it was made.
IdleLoad == [pc |-> "idle", list |-> {}, cancelledAt |-> None, read |-> None]

Passes == 1..MaxPasses

\* The task the server holds from the start, and its copy in the cache.
ServerTask0 == [id |-> S1, clienteId |-> None, title |-> "t0", status |-> "Pendiente"]

\* A task created while offline: no id yet, stored under its clientId.
LocalTask(c) == [id |-> None, clienteId |-> c, title |-> "l", status |-> "Pendiente"]

\* The k-th queued operation (ts = k).
Entry(k, op, c) ==
  [id |-> k, op |-> op, clienteId |-> c, ts |-> k,
   data |-> IF op = "delete" THEN [title |-> None, status |-> None]
            ELSE [title |-> "t" \o ToString(k),
                  status |-> IF op = "create" THEN "Pendiente" ELSE "Completada"]]

\* What an entry may be: any operation on a task created offline, an update
\* or a delete of the task loaded from the server.
EntryKinds == { <<"create", "cliente-1">>, <<"update", "cliente-1">>,
                <<"delete", "cliente-1">>, <<"update", S1>>, <<"delete", S1>> }

\* Entries queued when the model starts.
MaxOutbox == 1

\* A queue the user's actions can have left: a task is created before it is
\* updated or deleted, created once, and not touched after its delete.
wellFormed(o) ==
  \A e \in o : \A f \in o :
    (e.clienteId = f.clienteId /\ e.ts < f.ts) => (f.op # "create" /\ e.op # "delete")

Outboxes(max) ==
  { o \in UNION { { { Entry(k, f[k][1], f[k][2]) : k \in 1..n } : f \in [1..n -> EntryKinds] }
                  : n \in 0..max } : wellFormed(o) }

InitCaches ==
  { {normalizeTask(ServerTask0)} \cup { LocalTask(c) : c \in cs } : cs \in SUBSET ClientIds }

\* Entries queued when the model of the drain starts.
MaxQueued == 3

Start(onlines, outboxes) ==
  /\ online \in onlines
  /\ mounted = "no"
  /\ loading = TRUE
  /\ tasks = {}
  /\ cache \in InitCaches
  /\ outbox \in outboxes
  /\ mapping = { <<S1, S1>> }
  /\ server = {ServerTask0}
  /\ nextId = 0
  /\ load = IdleLoad
  /\ pass = [p \in Passes |-> IdlePass]
  /\ started = 0
  /\ applied = {}
  /\ lastRun = [run |-> 0, cache |-> {}, clean |-> FALSE, alone |-> FALSE, after |-> FALSE,
                refetched |-> FALSE, list |-> {}, read |-> None, failed |-> {}]

Init == Start(BOOLEAN, Outboxes(MaxOutbox))

\* The application is opened offline with a longer queue.
InitDrain == Start({FALSE}, Outboxes(MaxQueued))

-----------------------------------------------------------------------------
(* React state: a setter of an unmounted component does nothing *)

setState(old, new) == IF mounted = "yes" THEN new ELSE old

\* History: a request a pass sent to the task service, and how it ended.
\* entry: the outbox entry's id (0: none); key: the clientId it is about; sid: the
\* id the service answered with.
Req(kind, entry, key, sid, ok) ==
  [kind |-> kind, entry |-> entry, key |-> key, sid |-> sid, ok |-> ok]

\* The mapping writes of loadTasks: id -> id for every task that did not
\* originate on this client.
seedMappings(m, list) ==
  LET ids == { t.id : t \in { u \in list : u.id # None /\ ~startsWithCliente(u.clienteId) } }
  IN  { x \in m : x[1] \notin ids } \cup { <<id, id>> : id \in ids }

-----------------------------------------------------------------------------
(* The effects: mount, connectivity, unmount *)

\* syncNow up to its first await: the snapshot request is on its way.
startSync == 
  /\ pass' = [pass EXCEPT ![started + 1].pc = "fetch"]
  /\ started' = started + 1

MountAlwaysGets ==
  /\ mounted = "no"
  /\ mounted' = "yes"
  /\ load' = [load EXCEPT !.pc = "get"]
  /\ loading' = TRUE
  /\ tasks' = tasks
  /\ IF online THEN startSync ELSE UNCHANGED <<pass, started>>
  /\ UNCHANGED <<online, cache, outbox, mapping, server, nextId, applied, lastRun>>

\* Both effects run after the first render.
Mount ==
  /\ mounted = "no"
  /\ mounted' = "yes"
  /\ IF online
     THEN /\ load' = [load EXCEPT !.pc = "get"]
          /\ loading' = TRUE
          /\ tasks' = tasks
          /\ startSync
     ELSE /\ load' = [load EXCEPT !.pc = "done"]
          /\ loading' = FALSE
          /\ tasks' = cache
          /\ UNCHANGED <<pass, started>>
  /\ UNCHANGED <<online, cache, outbox, mapping, server, nextId, applied, lastRun>>

GoOffline ==
  /\ mounted # "no"
  /\ online
  /\ online' = FALSE
  /\ UNCHANGED <<mounted, loading, tasks, cache, outbox, mapping, server, nextId,
                 load, pass, started, applied, lastRun>>

GoOnlineOnly ==
  /\ mounted # "no"
  /\ ~online
  /\ online' = TRUE
  /\ UNCHANGED <<mounted, loading, tasks, cache, outbox, mapping, server, nextId,
                 load, pass, started, applied, lastRun>>

\* The auto-sync effect runs again when isOnline turns true.
GoOnline ==
  /\ mounted # "no"
  /\ ~online
  /\ online' = TRUE
  /\ IF mounted = "yes"
     THEN started < MaxPasses /\ startSync
     ELSE UNCHANGED <<pass, started>>
  /\ UNCHANGED <<mounted, loading, tasks, cache, outbox, mapping, server, nextId,
                 load, applied, lastRun>>

\* The cleanup of the initial-load effect: controller.abort().  A request
\* still pending is rejected with CanceledError, which loadTasks swallows.
Unmount ==
  /\ mounted = "yes"
  /\ mounted' = "gone"
  /\ load' = IF load.pc \in {"get", "cache", "map"}
             THEN [load EXCEPT !.cancelledAt = load.pc,
                               !.pc = IF load.pc = "get" THEN "done" ELSE load.pc]
             ELSE load
  /\ UNCHANGED <<online, loading, tasks, cache, outbox, mapping, server, nextId,
                 pass, started, applied, lastRun>>

-----------------------------------------------------------------------------
(* loadTasks(signal): the initial load *)

LoadRespond ==
  /\ load.pc = "get"
  /\ online
  /\ load' = [load EXCEPT !.pc = "cache", !.list = normalizeList(server)]
  /\ UNCHANGED <<online, mounted, loading, tasks, cache, outbox, mapping, server,
                 nextId, pass, started, applied, lastRun>>

LoadFailClearsList ==
  /\ load.pc = "get"
  /\ load' = [load EXCEPT !.pc = "done", !.read = "ok"]
  /\ tasks' = setState(tasks, {})
  /\ loading' = setState(loading, FALSE)
  /\ UNCHANGED <<online, mounted, cache, outbox, mapping, server, nextId, pass,
                 started, applied, lastRun>>

\* The request is rejected: the catch reads the cache, finally clears loading.
LoadFail ==
  /\ load.pc = "get"
  /\ load' = [load EXCEPT !.pc = "done", !.read = "ok"]
  /\ tasks' = setState(tasks, cache)
  /\ loading' = setState(loading, FALSE)
  /\ UNCHANGED <<online, mounted, cache, outbox, mapping, server, nextId, pass,
                 started, applied, lastRun>>

\* The request is rejected and getAllTasksLocal() throws too: the inner catch
\* logs, finally clears loading.
LoadFailRead ==
  /\ load.pc = "get"
  /\ load' = [load EXCEPT !.pc = "done", !.read = "failed"]
  /\ loading' = setState(loading, FALSE)
  /\ UNCHANGED <<online, mounted, tasks, cache, outbox, mapping, server, nextId, pass,
                 started, applied, lastRun>>

LoadCache ==
  /\ load.pc = "cache"
  /\ cache' = cacheTasks(load.list)
  /\ load' = [load EXCEPT !.pc = "map"]
  /\ UNCHANGED <<online, mounted, loading, tasks, outbox, mapping, server, nextId,
                 pass, started, applied, lastRun>>

LoadMap ==
  /\ load.pc = "map"
  /\ mapping' = seedMappings(mapping, load.list)
  /\ tasks' = setState(tasks, load.list)
  /\ loading' = setState(loading, FALSE)
  /\ load' = [load EXCEPT !.pc = "done", !.list = {}]
  /\ UNCHANGED <<online, mounted, cache, outbox, server, nextId, pass, started,
                 applied, lastRun>>

-----------------------------------------------------------------------------
(* syncNow: step 1 and 2, the snapshots *)

\* History: pass p returns, leaving the cache c; clean: the device was online
\* and every request of the pass succeeded; alone: the initial load is over;
\* after: the pass before this one was clean and alone; refetched, list: the
\* final loadTasks() got this list from the service; read: how its fallback
\* read of the cache ended, once it was made; failed: the ids of the queued
\* entries whose request failed, in this pass or in one before it.
returned(p, c, clean) ==
  [run |-> p, cache |-> c, clean |-> clean, alone |-> load.pc = "done",
   after |-> lastRun.run # 0 /\ lastRun.clean /\ lastRun.alone,
   refetched |-> FALSE, list |-> {}, read |-> None,
   failed |-> { r.entry : r \in { q \in pass[p].sent : ~q.ok /\ q.entry # 0 } }
              \cup { id \in lastRun.failed : \E e \in outbox : e.id = id }]

cur(p) == pass[p].ops[pass[p].i]

draining(p) == pass[p].pc = "drain" /\ pass[p].i <= Len(pass[p].ops)

\* The payload of a create or update request.
payload(d) == [title |-> d.title, status |-> d.status]

SyncFetchOkForgets(p) ==
  /\ pass[p].pc = "fetch"
  /\ online
  /\ \E raw \in getOutbox({ e \in outbox : e.id \notin lastRun.failed }) :
       pass' = [pass EXCEPT ![p] =
                  [pc |-> "drain", serverIds |-> { t.id : t \in normalizeList(server) },
                   localTasks |-> cache, ops |-> sortByTs(raw), i |-> 1,
                   todo |-> {}, sent |-> {Req("list", 0, None, None, TRUE)}]]
  /\ UNCHANGED <<online, mounted, loading, tasks, cache, outbox, mapping, server,
                 nextId, load, started, applied, lastRun>>

\* The snapshot request is answered: the local snapshot and the sorted queue.
SyncFetchOk(p) ==
  /\ pass[p].pc = "fetch"
  /\ online
  /\ \E raw \in getOutbox(outbox) :
       pass' = [pass EXCEPT ![p] =
                  [pc |-> "drain", serverIds |-> { t.id : t \in normalizeList(server) },
                   localTasks |-> cache, ops |-> sortByTs(raw), i |-> 1,
                   todo |-> {}, sent |-> {Req("list", 0, None, None, TRUE)}]]
  /\ UNCHANGED <<online, mounted, loading, tasks, cache, outbox, mapping, server,
                 nextId, load, started, applied, lastRun>>

SyncFetchFailGoesOn(p) ==
  /\ pass[p].pc = "fetch"
  /\ \E raw \in getOutbox(outbox) :
       pass' = [pass EXCEPT ![p] =
                  [pc |-> "drain", serverIds |-> {}, localTasks |-> cache,
                   ops |-> sortByTs(raw), i |-> 1, todo |-> {}, sent |-> aborted.sent]]
  /\ UNCHANGED <<online, mounted, loading, tasks, cache, outbox, mapping, server,
                 nextId, load, started, applied, lastRun>>

\* The outer catch: the pass ends.
SyncFetchFail(p) ==
  /\ pass[p].pc = "fetch"
  /\ pass' = [pass EXCEPT ![p] = aborted]
  /\ lastRun' = returned(p, cache, FALSE)
  /\ UNCHANGED <<online, mounted, loading, tasks, cache, outbox, mapping, server,
                 nextId, load, started, applied>>

-----------------------------------------------------------------------------
(* syncNow: step 3, the drain *)

entryFailedRemoved(p, kind) ==
  /\ pass' = [pass EXCEPT ![p].i = @ + 1,
                          ![p].sent = @ \cup {Req(kind, cur(p).id, cur(p).clienteId, None, FALSE)}]
  /\ outbox' = removeFromOutbox(outbox, cur(p).id)
  /\ UNCHANGED <<online, mounted, loading, tasks, cache, mapping, server,
                 nextId, load, started, applied, lastRun>>

entryFailedStops(p, kind) ==
  /\ pass' = [pass EXCEPT ![p].i = Len(pass[p].ops) + 1,
                          ![p].sent = @ \cup {Req(kind, cur(p).id, cur(p).clienteId, None, FALSE)}]
  /\ UNCHANGED <<online, mounted, loading, tasks, cache, outbox, mapping, server,
                 nextId, load, started, applied, lastRun>>

\* The per-entry catch: the entry stays queued, the loop goes on.
entryFailed(p, kind) ==
  /\ pass' = [pass EXCEPT ![p].i = @ + 1,
                          ![p].sent = @ \cup {Req(kind, cur(p).id, cur(p).clienteId, None, FALSE)}]
  /\ UNCHANGED <<online, mounted, loading, tasks, cache, outbox, mapping, server,
                 nextId, load, started, applied, lastRun>>

entryNotDropped(p) == entryFailed(p, cur(p).op)

\* An update or delete whose clientId has no mapping: removed, no request.
entryDropped(p) ==
  /\ outbox' = removeFromOutbox(outbox, cur(p).id)
  /\ pass' = [pass EXCEPT ![p].i = @ + 1]
  /\ UNCHANGED <<online, mounted, loading, tasks, cache, mapping, server, nextId,
                 load, started, applied, lastRun>>

dequeueNothing(o, e) == o

\* await removeFromOutbox(op.id), once the server has confirmed the entry.
dequeue(o, e) == removeFromOutbox(o, e.id)

SyncCreateOk(p) ==
  /\ draining(p)
  /\ cur(p).op = "create"
  /\ online
  /\ nextId < MaxServerIds
  /\ LET responseData == created(payload(cur(p).data), nextId)
         serverTask   == normalizeTask(responseData)
     IN  /\ server' = server \cup {responseData}
         /\ mapping' = setMapping(mapping, cur(p).clienteId, serverTask.id)
         /\ cache' = putTaskLocal(cache, serverTask)
  /\ nextId' = nextId + 1
  /\ outbox' = dequeue(outbox, cur(p))
  /\ pass' = [pass EXCEPT ![p].i = @ + 1,
                          ![p].sent = @ \cup {Req("create", cur(p).id, cur(p).clienteId,
                                                  Sid(nextId + 1), TRUE)}]
  /\ applied' = applied \cup {cur(p)}
  /\ UNCHANGED <<online, mounted, loading, tasks, load, started, lastRun>>

SyncCreateFail(p) ==
  /\ draining(p)
  /\ cur(p).op = "create"
  /\ entryFailed(p, "create")

SyncUpdateDrop(p) ==
  /\ draining(p)
  /\ cur(p).op = "update"
  /\ getMapping(mapping, cur(p).clienteId) = None
  /\ entryDropped(p)

SyncUpdateOk(p) ==
  /\ draining(p)
  /\ cur(p).op = "update"
  /\ online
  /\ LET serverId == getMapping(mapping, cur(p).clienteId)
         updatedTask == normalizeTask([id |-> serverId, clienteId |-> None,
                                       title |-> cur(p).data.title,
                                       status |-> cur(p).data.status])
     IN  /\ serverId # None
         /\ holds(server, serverId)
         /\ server' = updated(server, serverId, payload(cur(p).data))
         /\ cache' = putTaskLocal(cache, updatedTask)
  /\ outbox' = dequeue(outbox, cur(p))
  /\ pass' = [pass EXCEPT ![p].i = @ + 1,
                          ![p].sent = @ \cup {Req("update", cur(p).id, cur(p).clienteId,
                                                  None, TRUE)}]
  /\ applied' = applied \cup {cur(p)}
  /\ UNCHANGED <<online, mounted, loading, tasks, mapping, nextId, load, started,
                 lastRun>>

SyncUpdateFail(p) ==
  /\ draining(p)
  /\ cur(p).op = "update"
  /\ getMapping(mapping, cur(p).clienteId) # None
  /\ entryFailed(p, "update")

SyncDeleteDrop(p) ==
  /\ draining(p)
  /\ cur(p).op = "delete"
  /\ getMapping(mapping, cur(p).clienteId) = None
  /\ entryDropped(p)

SyncDeleteOk(p) ==
  /\ draining(p)
  /\ cur(p).op = "delete"
  /\ online
  /\ LET serverId == getMapping(mapping, cur(p).clienteId)
     IN  /\ serverId # None
         /\ holds(server, serverId)
         /\ server' = deleted(server, serverId)
         /\ cache' = removeTaskLocal(cache, serverId)
  /\ outbox' = dequeue(outbox, cur(p))
  /\ pass' = [pass EXCEPT ![p].i = @ + 1,
                          ![p].sent = @ \cup {Req("delete", cur(p).id, cur(p).clienteId,
                                                  None, TRUE)}]
  /\ applied' = applied \cup {cur(p)}
  /\ UNCHANGED <<online, mounted, loading, tasks, mapping, nextId, load, started,
                 lastRun>>

SyncDeleteFail(p) ==
  /\ draining(p)
  /\ cur(p).op = "delete"
  /\ getMapping(mapping, cur(p).clienteId) # None
  /\ entryFailed(p, "delete")

-----------------------------------------------------------------------------
(* syncNow: step 4, the local-only upload *)

localOnlyTasksUnmapped(localTasks, m, serverIds) ==
  { t \in localTasks : t.id \notin serverIds }

\* localOnlyTasks: no mapping for the clientId and the id not in the snapshot.
localOnlyTasks(localTasks, m, serverIds) ==
  { t \in localTasks : getMapping(m, t.clienteId) = None /\ t.id \notin serverIds }

SyncDrainEnd(p) ==
  /\ pass[p].pc = "drain"
  /\ pass[p].i > Len(pass[p].ops)
  /\ pass' = [pass EXCEPT ![p].pc = "upload",
                          ![p].todo = localOnlyTasks(pass[p].localTasks, mapping,
                                                     pass[p].serverIds)]
  /\ UNCHANGED <<online, mounted, loading, tasks, cache, outbox, mapping, server,
                 nextId, load, started, applied, lastRun>>

SyncUploadOk(p) ==
  /\ pass[p].pc = "upload"
  /\ online
  /\ nextId < MaxServerIds
  /\ \E task \in pass[p].todo :
       LET responseData == created(payload(task), nextId)
           serverTask   == normalizeTask(responseData)
       IN  /\ server' = server \cup {responseData}
           /\ mapping' = setMapping(mapping, task.clienteId, serverTask.id)
           /\ cache' = putTaskLocal(cache, serverTask)
           /\ pass' = [pass EXCEPT ![p].todo = @ \ {task},
                                   ![p].sent = @ \cup {Req("upload", 0, task.clienteId,
                                                           serverTask.id, TRUE)}]
  /\ nextId' = nextId + 1
  /\ UNCHANGED <<online, mounted, loading, tasks, outbox, load, started, applied, lastRun>>

SyncUploadFail(p) ==
  /\ pass[p].pc = "upload"
  /\ \E task \in pass[p].todo :
       pass' = [pass EXCEPT ![p].todo = @ \ {task},
                            ![p].sent = @ \cup {Req("upload", 0, task.clienteId,
                                                    None, FALSE)}]
  /\ UNCHANGED <<online, mounted, loading, tasks, cache, outbox, mapping, server,
                 nextId, load, started, applied, lastRun>>

-----------------------------------------------------------------------------
(* syncNow: step 5, await loadTasks() *)

SyncReloadStart(p) ==
  /\ pass[p].pc = "upload"
  /\ pass[p].todo = {}
  /\ IF online
     THEN /\ pass' = [pass EXCEPT ![p].pc = "reload"]
          /\ loading' = setState(loading, TRUE)
          /\ tasks' = tasks
     ELSE /\ pass' = [pass EXCEPT ![p] = ended("done")]
          /\ loading' = setState(loading, FALSE)
          /\ tasks' = setState(tasks, cache)
  /\ lastRun' = IF online THEN lastRun ELSE returned(p, cache, FALSE)
  /\ UNCHANGED <<online, mounted, cache, outbox, mapping, server, nextId, load,
                 started, applied>>

SyncReloadOkKeepsCache(p) ==
  /\ pass[p].pc = "reload"
  /\ online
  /\ LET list == normalizeList(server)
     IN  /\ mapping' = seedMappings(mapping, list)
         /\ tasks' = setState(tasks, list)
         /\ lastRun' = [returned(p, cache, \A r \in pass[p].sent : r.ok)
                          EXCEPT !.refetched = TRUE, !.list = list]
  /\ loading' = setState(loading, FALSE)
  /\ pass' = [pass EXCEPT ![p] = ended("done")]
  /\ UNCHANGED <<online, mounted, cache, outbox, server, nextId, load, started, applied>>

\* The request is answered: cacheTasks, the mapping loop, setTasks.
SyncReloadOk(p) ==
  /\ pass[p].pc = "reload"
  /\ online
  /\ LET list == normalizeList(server)
     IN  /\ cache' = cacheTasks(list)
         /\ mapping' = seedMappings(mapping, list)
         /\ tasks' = setState(tasks, list)
  /\ loading' = setState(loading, FALSE)
  /\ pass' = [pass EXCEPT ![p] = ended("done")]
  /\ lastRun' = [returned(p, cache', \A r \in pass[p].sent : r.ok)
                   EXCEPT !.refetched = TRUE, !.list = normalizeList(server)]
  /\ UNCHANGED <<online, mounted, outbox, server, nextId, load, started, applied>>

SyncReloadFail(p) ==
  /\ pass[p].pc = "reload"
  /\ tasks' = setState(tasks, cache)
  /\ loading' = setState(loading, FALSE)
  /\ pass' = [pass EXCEPT ![p] = ended("done")]
  /\ lastRun' = [returned(p, cache, FALSE) EXCEPT !.read = "ok"]
  /\ UNCHANGED <<online, mounted, cache, outbox, mapping, server, nextId, load,
                 started, applied>>

SyncReloadFailRead(p) ==
  /\ pass[p].pc = "reload"
  /\ loading' = setState(loading, FALSE)
  /\ pass' = [pass EXCEPT ![p] = ended("done")]
  /\ lastRun' = [returned(p, cache, FALSE) EXCEPT !.read = "failed"]
  /\ UNCHANGED <<online, mounted, tasks, cache, outbox, mapping, server, nextId, load,
                 started, applied>>

-----------------------------------------------------------------------------

SyncStep(p) ==
  \/ SyncFetchOk(p)
  \/ SyncFetchFail(p)
  \/ SyncCreateOk(p)
  \/ SyncCreateFail(p)
  \/ SyncUpdateDrop(p)
  \/ SyncUpdateOk(p)
  \/ SyncUpdateFail(p)
  \/ SyncDeleteDrop(p)
  \/ SyncDeleteOk(p)
  \/ SyncDeleteFail(p)
  \/ SyncDrainEnd(p)
  \/ SyncUploadOk(p)
  \/ SyncUploadFail(p)
  \/ SyncReloadStart(p)
  \/ SyncReloadOk(p)
  \/ SyncReloadFail(p)
  \/ SyncReloadFailRead(p)

Next ==
  \/ Mount
  \/ GoOffline
  \/ GoOnline
  \/ Unmount
  \/ LoadRespond
  \/ LoadFail
  \/ LoadFailRead
  \/ LoadCache
  \/ LoadMap
  \/ \E p \in Passes : SyncStep(p)

Spec == Init /\ [][Next]_vars

-----------------------------------------------------------------------------
(* The program while connectivity changes only between passes, so that no   *)
(* two passes overlap.                                                      *)

inFlight(p) == pass[p].pc \notin {"idle", "done", "aborted"}

quiet == \A p \in Passes : ~inFlight(p)

SeqGoOffline == quiet /\ GoOffline

SeqGoOnline == quiet /\ GoOnline

NextSeq ==
  \/ Mount
  \/ SeqGoOffline
  \/ SeqGoOnline
  \/ Unmount
  \/ LoadRespond
  \/ LoadFail
  \/ LoadFailRead
  \/ LoadCache
  \/ LoadMap
  \/ \E p \in Passes : SyncStep(p)

SpecSeq == Init /\ [][NextSeq]_vars

-----------------------------------------------------------------------------
(* The same program opened online with a longer queue, so that one pass     *)
(* can create a task and delete it again while the initial load is under    *)
(* way.                                                                     *)

\* Entries queued when this model starts.
MaxPair == 2

InitPair == Start({TRUE}, Outboxes(MaxPair))

SpecPair == InitPair /\ [][NextSeq]_vars

-----------------------------------------------------------------------------
(* The passes alone: the application is opened offline, so the initial load *)
(* reads the cache and every pass is started by connectivity coming back.   *)

NextDrain ==
  \/ Mount
  \/ SeqGoOffline
  \/ SeqGoOnline
  \/ \E p \in Passes : SyncStep(p)

SpecDrain == InitDrain /\ [][NextDrain]_vars

-----------------------------------------------------------------------------
(* The passes for ever: connectivity keeps going and coming back.  A        *)
(* syncNow execution that returned leaves nothing behind, so its place in   *)
(* the model is used again.  Every request is answered or rejected in the   *)
(* end, and every continuation is run in the end.                           *)

\* Entries queued when this model starts.
MaxRetryQueued == 2

InitRetry == Start({FALSE}, Outboxes(MaxRetryQueued))

Recycle ==
  /\ quiet
  /\ started = MaxPasses
  /\ started' = 0
  /\ pass' = [p \in Passes |-> IdlePass]
  /\ UNCHANGED <<online, mounted, loading, tasks, cache, outbox, mapping, server,
                 nextId, load, applied, lastRun>>

NextRetry ==
  \/ Mount
  \/ SeqGoOffline
  \/ SeqGoOnline
  \/ Recycle
  \/ \E p \in Passes : SyncStep(p)

SpecRetry ==
  /\ InitRetry
  /\ [][NextRetry]_vars
  /\ WF_vars(Mount)
  /\ WF_vars(Recycle)
  /\ WF_vars(\E p \in Passes : SyncStep(p))

-----------------------------------------------------------------------------
(* Properties *)

passesInFlight == { p \in Passes : inFlight(p) }

\* C3 (single-flight): at no time are two reconciliation passes in flight
\* at once.
C3_SingleFlight == Cardinality(passesInFlight) <= 1

\* C1 (mapping stability): once the mapping table holds a server id for a
\* clientId, no step changes that clientId's mapping to another value.
C1_MappingStable ==
  [][\A x \in mapping : getMapping(mapping', x[1]) = x[2]]_vars

\* C2 (ordering): of two outbox entries with the same clientId, the one with
\* the smaller ts is applied to the server first: no entry is applied after
\* an entry of its clientId with a larger ts has been.
C2_Ordering ==
  [][\A e \in applied' \ applied :
       \A f \in applied : ~(f.clienteId = e.clienteId /\ e.ts < f.ts)]_vars

\* The outbox entries whose server call failed in pass p.
failedEntries(p) ==
  { r.entry : r \in { q \in pass[p].sent : ~q.ok /\ q.kind \in {"create", "update", "delete"} } }

entriesOf(p) == { pass[p].ops[k] : k \in 1..Len(pass[p].ops) }

\* The drain of pass p is over and step 4 has not sent anything yet.
drained(p) ==
  /\ pass[p].pc = "upload"
  /\ \A r \in pass[p].sent : r.kind # "upload"

\* What a confirmed entry leaves in the Entity Cache: the created or updated
\* task, or no task under the deleted id.
effectInCache(e) ==
  IF e.op = "delete"
  THEN \A t \in cache : t.id # getMapping(mapping, e.clienteId)
  ELSE \E t \in cache : t.id # None /\ t.title = e.data.title /\ t.status = e.data.status

\* The last entry of its clientId in pass p: no later entry overwrites its effect.
lastOfTarget(p, e) ==
  \A f \in entriesOf(p) : f.clienteId = e.clienteId => f.ts <= e.ts

\* C4 (partial-failure isolation): after the drain of three entries of which
\* exactly one failed, the failed entry is still queued, the other two are
\* gone from the outbox and their effects are in the Entity Cache.
C4_PartialFailure ==
  \A p \in Passes :
    (drained(p) /\ Len(pass[p].ops) = 3 /\ Cardinality(failedEntries(p)) = 1) =>
      \A e \in entriesOf(p) :
        IF e.id \in failedEntries(p)
        THEN e \in outbox
        ELSE e \notin outbox /\ (lastOfTarget(p, e) => effectInCache(e))

\* Pass p returns in this step.
returns(p) == inFlight(p) /\ ~(inFlight(p))'

C6_CreateConfirmed ==
  [][\A p \in Passes :
       returns(p) =>
         \A r \in { q \in pass[p].sent : q.kind = "create" /\ q.ok } :
           /\ getMapping(mapping', r.key) = r.sid
           /\ \A e \in outbox' : e.id # r.entry
           /\ \E t \in cache' : t.id = r.sid /\ t.clienteId = r.key]_vars

\* Pass p is about to process an update or delete whose clientId has no mapping.
unresolved(p) ==
  /\ draining(p)
  /\ cur(p).op \in {"update", "delete"}
  /\ getMapping(mapping, cur(p).clienteId) = None

\* C7 (unresolved reference drop): the step that processes an update or
\* delete whose clientId has no mapping removes the entry from the outbox,
\* sends no request and leaves the Entity Cache (and the server) as it was.
C7_UnresolvedDrop ==
  [][\A p \in Passes :
       (unresolved(p) /\ pass'[p] # pass[p]) =>
         /\ cur(p) \notin outbox'
         /\ pass'[p].sent = pass[p].sent
         /\ server' = server
         /\ cache' = cache]_vars

\* An update was dropped: processed, no longer queued, no request sent for it.
C7_Witness ==
  \E p \in Passes : \E k \in 1..Len(pass[p].ops) :
    /\ k < pass[p].i
    /\ pass[p].ops[k].op = "update"
    /\ pass[p].ops[k] \notin outbox
    /\ \A r \in pass[p].sent : r.entry # pass[p].ops[k].id

\* The snapshot request of pass p failed.
fetchFailed(p) == \E r \in pass[p].sent : r.kind = "list" /\ ~r.ok

\* C8 (fetch-failure abort): starting a pass changes no store; the step in
\* which its snapshot request fails changes neither the outbox, the Entity
\* Cache, the mapping table nor the server; and a pass whose snapshot
\* request failed has returned, having sent no other request.
C8_FetchFailureAbort ==
  [][\A p \in Passes :
       /\ (pass[p].pc = "idle" /\ pass'[p] # pass[p]) =>
            (pass'[p].pc = "fetch" /\ UNCHANGED <<outbox, cache, mapping, server>>)
       /\ (~fetchFailed(p) /\ (fetchFailed(p))') =>
            (pass[p].pc = "fetch" /\ UNCHANGED <<outbox, cache, mapping, server>>)
       /\ (fetchFailed(p))' => pass'[p] = aborted]_vars

\* A pass was aborted while entries were queued.
C8_Witness ==
  \E p \in Passes : pass[p].pc = "aborted" /\ fetchFailed(p) /\ outbox # {}

\* C9 (cancelled load): once the initial load is cancelled, no step of it
\* changes the Entity Cache or the mapping table.
C9_CancelledLoad ==
  [][(load.cancelledAt # None /\ load' # load) => UNCHANGED <<cache, mapping>>]_vars

\* C10 (outbox removal discipline): a step removes an entry from the outbox
\* only if it is the step of a pass on that entry in which the server call
\* succeeded, or in which an update or delete found no mapping; and a pass
\* never removes an entry whose server call it saw fail.
C10_RemovalDiscipline ==
  [][/\ \A e \in outbox \ outbox' :
          \E p \in Passes :
            /\ draining(p)
            /\ cur(p) = e
            /\ \/ \E r \in pass'[p].sent \ pass[p].sent :
                    r.ok /\ r.entry = e.id /\ r.kind = e.op
               \/ unresolved(p) /\ pass'[p].sent = pass[p].sent
     /\ \A p \in Passes : \A r \in pass'[p].sent :
          (~r.ok /\ r.entry # 0) => \E e \in outbox' : e.id = r.entry]_vars

\* An entry was removed after its server call succeeded, in a pass that
\* kept another entry whose call failed.
C10_Witness ==
  \E p \in Passes : \E r, q \in pass[p].sent :
    /\ r.ok /\ r.entry # 0 /\ \A e \in outbox : e.id # r.entry
    /\ ~q.ok /\ q.entry # 0 /\ \E e \in outbox : e.id = q.entry

\* The upload requests pass p has sent.
uploadsOf(p) == { r \in pass[p].sent : r.kind = "upload" }

\* C11 (local-only upload): the tasks step 4 takes up are the tasks of the
\* local snapshot whose clientId has no mapping when the drain is over and
\* whose id is not in the server snapshot; an upload request is sent in
\* step 4 only, for one of these tasks, and takes it off the list, so each
\* gets one request and no other task gets any; when the request succeeds
\* the clientId is mapped to the id the service returned and the cache
\* holds the task the service returned, when it fails nothing is written;
\* and step 4 ends only when the list is empty.
C11_LocalOnlyUpload ==
  [][\A p \in Passes :
       /\ (pass[p].pc = "drain" /\ pass'[p].pc # "drain") =>
            /\ pass'[p].pc = "upload"
            /\ pass'[p].todo =
                 { t \in pass[p].localTasks :
                     getMapping(mapping, t.clienteId) = None /\ t.id \notin pass[p].serverIds }
       /\ \A r \in (uploadsOf(p))' \ uploadsOf(p) :
            /\ pass[p].pc = "upload"
            /\ \E t \in pass[p].todo :
                 t.clienteId = r.key /\ pass'[p].todo = pass[p].todo \ {t}
            /\ IF r.ok
               THEN /\ getMapping(mapping', r.key) = r.sid
                    /\ \E x \in server' \ server : x.id = r.sid
                    /\ \E u \in cache' : u.id = r.sid
               ELSE UNCHANGED <<mapping, cache, server>>
       /\ (pass[p].pc = "upload" /\ pass'[p].todo # pass[p].todo) =>
            \/ (uploadsOf(p))' # uploadsOf(p)
            \/ returns(p)
       /\ (pass[p].pc = "upload" /\ pass'[p].pc # "upload") => pass[p].todo = {}]_vars

\* Step 4 of a pass is over and uploaded a task that was created offline.
C11_Witness ==
  \E p \in Passes :
    /\ pass[p].pc = "reload"
    /\ \E r \in uploadsOf(p) :
         r.ok /\ startsWithCliente(r.key) /\ getMapping(mapping, r.key) = r.sid

C13_ConnectivityTrigger ==
  [][/\ (~online /\ online' /\ mounted = "yes") =>
          (started' = started + 1 /\ pass'[started'].pc = "fetch")
     /\ started' # started =>
          (started' = started + 1 /\ online' /\ (~online \/ mounted = "no"))
     /\ \A p \in Passes :
          (pass[p].pc = "idle" /\ pass'[p].pc # "idle") =>
            (p = started' /\ started' = started + 1)]_vars

\* A pass was aborted, the signal went and came back, and the second pass
\* is starting.
C13_Witness ==
  /\ started = 2
  /\ pass[2].pc = "fetch"
  /\ load.pc = "done"
  /\ load.read = None
  /\ load.cancelledAt = None
  /\ nextId = 0
  /\ pass[1].pc = "aborted"

\* C14 (offline initial load): the initial load that runs while offline
\* sets the task list to the contents of the Entity Cache and is over at
\* once, without a request to the task service (the load never waits for a
\* response) and without a write to the cache or the mapping table.
C14_OfflineInitialLoad ==
  [][/\ (mounted = "no" /\ mounted' = "yes" /\ ~online) =>
          /\ tasks' = cache
          /\ loading' = FALSE
          /\ load'.pc = "done"
          /\ UNCHANGED <<cache, mapping, server, pass, started>>
     /\ load.pc = "done" => load'.pc = "done"]_vars

\* The application was opened offline with two tasks in the cache.
C14_Witness ==
  /\ mounted = "yes"
  /\ ~online
  /\ started = 0
  /\ load.pc = "done"
  /\ ~loading
  /\ Cardinality(cache) = 2
  /\ tasks = cache

\* The requests pass p has sent for entry e.
requestsFor(p, e) == { r \in pass[p].sent : r.entry = e.id }

\* Pass p has attempted entry e: it sent the entry's request, or removed the
\* entry without one.
attempted(p, e) == requestsFor(p, e) # {} \/ e \notin outbox

\* C15 (pass structure): during the drain the entries before the loop's
\* position have been attempted and the others are still queued with no
\* request sent; no entry ever has two requests in one pass; and while a
\* pass is in step 4 or 5 every entry of its sorted list has been attempted,
\* the ones after a failed entry included.
C15_PassStructure ==
  \A p \in Passes :
    /\ \A e \in entriesOf(p) : Cardinality(requestsFor(p, e)) <= 1
    /\ pass[p].pc = "drain" =>
         /\ uploadsOf(p) = {}
         /\ \A k \in 1..Len(pass[p].ops) :
              IF k < pass[p].i
              THEN attempted(p, pass[p].ops[k])
              ELSE pass[p].ops[k] \in outbox /\ requestsFor(p, pass[p].ops[k]) = {}
    /\ pass[p].pc \in {"upload", "reload"} =>
         \A e \in entriesOf(p) : attempted(p, e)

\* A pass over three entries is in step 4: the request of the first entry
\* failed, and the second and third were attempted after it.
C15_Witness ==
  \E p \in Passes :
    /\ pass[p].pc = "upload"
    /\ Len(pass[p].ops) = 3
    /\ \E r \in requestsFor(p, pass[p].ops[1]) : ~r.ok
    /\ \E r \in requestsFor(p, pass[p].ops[3]) : r.ok
    /\ attempted(p, pass[p].ops[2])

\* C16 (no duplicate creation): a create request for clientId c, sent by the
\* drain or by the upload, succeeds only while c has no mapping, that is,
\* while no earlier create request for c has succeeded.
C16_NoDuplicateCreate ==
  [][\A p \in Passes :
       \A r \in pass'[p].sent \ pass[p].sent :
         (r.ok /\ r.kind \in {"create", "upload"}) => getMapping(mapping, r.key) = None]_vars

\* C17 (interleaved load and pass): once the initial online load has
\* finished, uncancelled, and no pass is in flight, the last pass having
\* returned after a successful re-fetch, the Entity Cache is the task list
\* the service holds.
C17_InterleavedLoad ==
  ( /\ load.pc = "done"
    /\ load.cancelledAt = None
    /\ load.read = None
    /\ quiet
    /\ lastRun.run # 0
    /\ lastRun.refetched ) => cache = normalizeList(server)

\* Passes keep being started.
passesKeepComing == []<><<started' = started + 1>>_vars

\* From some point on no request of a pass fails.
callsSucceedInTheEnd ==
  <>[][\A p \in Passes : \A r \in pass'[p].sent \ pass[p].sent : r.ok]_vars

\* If passes keep being started and in the end no request fails, the outbox
\* becomes empty and stays empty.
drainedInTheEnd == (passesKeepComing /\ callsSucceedInTheEnd) => <>[](outbox = {})

\* C18 (retry until drained), as claimed: every pass that returns has sent
\* the request of each queued entry whose request failed in an earlier
\* pass; and if passes keep being started and in the end no request fails,
\* the outbox becomes empty and stays empty.
C18_RetryUntilDrained ==
  /\ [][\A p \in Passes :
          returns(p) =>
            \A id \in lastRun.failed : \E r \in pass[p].sent : r.entry = id]_vars
  /\ drainedInTheEnd

\* C18, amended: every pass that returns after its snapshot request
\* succeeded has done so; the rest as claimed.
C18_RetryAfterSnapshot ==
  /\ [][\A p \in Passes :
          (returns(p) /\ pass[p].pc # "fetch") =>
            \A id \in lastRun.failed : \E r \in pass[p].sent : r.entry = id]_vars
  /\ drainedInTheEnd

\* An entry whose request failed in an earlier pass has now been confirmed,
\* and the outbox is empty.
C18_Witness ==
  /\ outbox = {}
  /\ \E p \in Passes : \E r \in pass[p].sent : r.ok /\ r.entry \in lastRun.failed

\* C19 (load fallback): the step in which the request of a load is rejected,
\* of the initial load or of the load that ends a pass, leaves the cache,
\* the mapping table and the service as they were; in a mounted component
\* it clears the loading flag and sets the task list to the cache contents
\* or, when the read of the cache failed too, leaves the task list as it was.
C19_LoadFallback ==
  [][/\ (load.pc = "get" /\ load'.pc = "done" /\ load'.read # None) =>
          /\ UNCHANGED <<cache, mapping, server>>
          /\ loading' = FALSE
          /\ tasks' = IF load'.read = "ok" THEN cache ELSE tasks
     /\ \A p \in Passes :
          (pass[p].pc = "reload" /\ returns(p) /\ ~lastRun'.refetched) =>
            /\ UNCHANGED <<cache, mapping, server>>
            /\ lastRun'.read # None
            /\ mounted = "yes" =>
                 /\ loading' = FALSE
                 /\ tasks' = IF lastRun'.read = "ok" THEN cache ELSE tasks]_vars

\* The initial load was rejected and could not read the cache, so the list
\* stayed empty; then the load that ended a pass was rejected too and fell
\* back to the cache.
C19_Witness ==
  /\ mounted = "yes"
  /\ load.pc = "done"
  /\ load.read = "failed"
  /\ lastRun.read = "ok"
  /\ ~loading
  /\ cache # {}
  /\ tasks = cache

\* C20 (server-originated tasks stay resolvable): when an online load
\* completes, initial or at the end of a pass, every task of its list whose
\* clientId does not start with 'cliente-' has its id mapped to itself; such
\* a mapping is still there when the next pass runs, no step replaces it;
\* and the step of a pass on an update or
\* delete entry whose clientId is mapped to itself sends the entry's
\* request, which, when it succeeds, changes the task of that id on the
\* service.
C20_ServerTasksResolvable ==
  [][/\ (load.pc = "map" /\ load'.pc = "done") =>
          \A t \in load.list :
            ~startsWithCliente(t.clienteId) => getMapping(mapping', t.id) = t.id
     /\ \A p \in Passes :
          (returns(p) /\ lastRun'.refetched) =>
            \A t \in lastRun'.list :
              ~startsWithCliente(t.clienteId) => getMapping(mapping', t.id) = t.id
     /\ \A x \in mapping : x[1] = x[2] => x \in mapping'
     /\ \A p \in Passes :
          ( /\ draining(p)
            /\ cur(p).op \in {"update", "delete"}
            /\ getMapping(mapping, cur(p).clienteId) = cur(p).clienteId
            /\ pass'[p] # pass[p] ) =>
            \E r \in pass'[p].sent \ pass[p].sent :
              /\ r.entry = cur(p).id
              /\ r.kind = cur(p).op
              /\ r.ok =>
                   IF cur(p).op = "delete"
                   THEN ~holds(server', cur(p).clienteId)
                   ELSE \E x \in server' :
                          x.id = cur(p).clienteId /\ x.title = cur(p).data.title]_vars

====
